---------------------------- MODULE Spec2Model ----------------------------
(***************************************************************************)
(* Model of src/main.py: a Flask application over one SQLite table (Movie) *)
(* with the routes home, rate_movie, delete_movie and find_movie.          *)
(*                                                                         *)
(* A nullable column holds <<>> (NULL) or <<v>>.  A rating is held in      *)
(* tenths (7.5 is 75).  Texts that the code parses (the provider's         *)
(* release_date, the rating typed in the form) are sequences of            *)
(* one-character strings; texts that are only compared or concatenated     *)
(* are strings.                                                            *)
(***************************************************************************)
EXTENDS Integers, Sequences, FiniteSets, TLC

VARIABLES movies, last

vars == <<movies, last>>

\* The largest record id a request names.  The table holds at most one row
\* per title of the Catalog, so ids above that many name no row.
MaxRequestId == 4

NULL == <<>>

MOVIE_DB_IMAGE_URL == "https://image.tmdb.org/t/p/w500"

-----------------------------------------------------------------------------
(* The provider's detail responses (response.json() of line 146), by       *)
(* provider id.  "dune" differs from "Dune" in case only; the third        *)
(* release_date has no separator.                                          *)
Catalog ==
    [ p \in 1..3 |->
        CASE p = 1 -> [title |-> "Dune",
                       release_date |-> <<"2","0","2","1","-","1","0","-","2","2">>,
                       poster_path |-> "/abc.jpg", overview |-> "Spice"]
          [] p = 2 -> [title |-> "dune",
                       release_date |-> <<"1","9","8","4","-","1","2","-","1","4">>,
                       poster_path |-> "/d84.jpg", overview |-> "Worms"]
          [] OTHER -> [title |-> "Alien",
                       release_date |-> <<"1","9","7","9">>,
                       poster_path |-> "/ali.jpg", overview |-> "Ship"] ]

\* Provider ids a request may name: 0 is one the provider does not know.
ProviderIds == 0..3

\* Record ids a request may name.
RequestIds == 1..MaxRequestId

\* The forms a POST to /edit may carry: the rating as typed, and the review.
Forms ==
    { [rating |-> <<"7",".","5">>,     review |-> "Great"],
      [rating |-> <<"1","2",".","5">>, review |-> ""],
      [rating |-> <<"a","b","c">>,     review |-> "Bad"] }

\* A request that carries no form.
NoForm == [rating |-> <<>>, review |-> ""]

-----------------------------------------------------------------------------
Digits == <<"0","1","2","3","4","5","6","7","8","9">>

IsDigit(c) == \E d \in 1..10 : Digits[d] = c

DigitVal(c) == (CHOOSE d \in 1..10 : Digits[d] = c) - 1

AllDigits(s) == Len(s) > 0 /\ \A i \in 1..Len(s) : IsDigit(s[i])

RECURSIVE StrToInt(_)
StrToInt(s) ==
    IF Len(s) = 0 THEN 0
    ELSE 10 * StrToInt(SubSeq(s, 1, Len(s) - 1)) + DigitVal(s[Len(s)])

\* s.split(sep)[0]: the part of s before the first sep, all of s without one.
SplitFirst(s, sep) ==
    IF \E i \in 1..Len(s) : s[i] = sep
    THEN SubSeq(s, 1, (CHOOSE i \in 1..Len(s) :
                          s[i] = sep /\ \A j \in 1..(i - 1) : s[j] # sep) - 1)
    ELSE s

\* An INTEGER column stores a text that is a decimal numeral as that integer.
IntegerAffinity(s) == IF AllDigits(s) THEN StrToInt(s) ELSE s

\* float(text) in tenths, for texts d+ and d+.d; <<>> where float raises.
ParseFloat(s) ==
    LET dot == SplitFirst(s, ".")
    IN  IF AllDigits(s) THEN <<10 * StrToInt(s)>>
        ELSE IF AllDigits(dot) /\ Len(s) = Len(dot) + 2 /\ IsDigit(s[Len(s)])
             THEN <<10 * StrToInt(dot) + DigitVal(s[Len(s)])>>
             ELSE NULL

-----------------------------------------------------------------------------
(* The table.  movies maps each stored id to its row.                      *)

Ids == DOMAIN movies

Max(S) == CHOOSE m \in S : \A n \in S : n <= m

\* INTEGER PRIMARY KEY of SQLite: one more than the largest id in the table.
NextId == IF Ids = {} THEN 1 ELSE Max(Ids) + 1

\* ImageUrl joining the two parts with a "/" of its own.
ImageUrlJoined(base, poster_path) == base \o "/" \o poster_path

\* f"{MOVIE_DB_IMAGE_URL}{data['poster_path']}"
ImageUrl(base, poster_path) == base \o poster_path

\* Movie(title=..., year=..., img_url=..., description=...) of find_movie, as
\* the table stores it: rating, ranking and review are not given.
NewMovie(data) ==
    [ title       |-> data.title,
      year        |-> IntegerAffinity(SplitFirst(data.release_date, "-")),
      description |-> data.overview,
      rating      |-> NULL,
      ranking     |-> NULL,
      review      |-> NULL,
      img_url     |-> ImageUrl(MOVIE_DB_IMAGE_URL, data.poster_path) ]

\* UniqueViolation without the constraint (unique=True left out).
UniqueViolationOff(db, title) == FALSE

\* unique=True on title: the insert is refused when a row has that title.
UniqueViolation(db, title) == \E i \in DOMAIN db : db[i].title = title

\* db.session.add(new_movie) then commit, the constraint holding.
Insert(db, id, row) == [ i \in DOMAIN db \cup {id} |-> IF i = id THEN row ELSE db[i] ]

\* db.session.delete(movie) then commit.
Delete(db, id) == [ i \in DOMAIN db \ {id} |-> db[i] ]

\* SetRating clamping the rating to 0.0 .. 10.0.
SetRatingClamped(db, id, rating, review) ==
    [ db EXCEPT ![id].rating = IF rating[1] > 100 THEN <<100>> ELSE rating,
                ![id].review = <<review>> ]

\* SetRating without the assignment of the review.
SetRatingOnly(db, id, rating, review) == [ db EXCEPT ![id].rating = rating ]

\* movie.rating = float(...); movie.review = ...; commit.
SetRating(db, id, rating, review) ==
    [ db EXCEPT ![id].rating = rating, ![id].review = <<review>> ]

\* Before with NULL ratings first, as a database that holds NULL the largest.
BeforeNullsFirst(db, a, b) ==
    \/ db[a].rating = NULL /\ db[b].rating # NULL
    \/ db[a].rating # NULL /\ db[b].rating # NULL /\ db[a].rating[1] > db[b].rating[1]
    \/ db[a].rating = db[b].rating /\ a < b

\* Before with equal ratings separated by the stored ranking, largest first.
BeforeByRanking(db, a, b) ==
    LET rk(i) == IF db[i].ranking = NULL THEN 0 ELSE db[i].ranking[1]
    IN  \/ db[a].rating # NULL /\ db[b].rating = NULL
        \/ db[a].rating # NULL /\ db[b].rating # NULL /\ db[a].rating[1] > db[b].rating[1]
        \/ db[a].rating = db[b].rating /\ rk(a) > rk(b)
        \/ db[a].rating = db[b].rating /\ rk(a) = rk(b) /\ a < b

\* ORDER BY rating DESC of SQLite: a NULL rating sorts after every number, and
\* rows the key does not separate come out in the order of the table scan (id).
Before(db, a, b) ==
    \/ db[a].rating # NULL /\ db[b].rating = NULL
    \/ db[a].rating # NULL /\ db[b].rating # NULL /\ db[a].rating[1] > db[b].rating[1]
    \/ db[a].rating = db[b].rating /\ a < b

RECURSIVE SortIds(_, _)
SortIds(db, S) ==
    IF S = {} THEN <<>>
    ELSE LET first == CHOOSE a \in S : \A b \in S \ {a} : Before(db, a, b)
         IN  <<first>> \o SortIds(db, S \ {first})

\* db.select(Movie).order_by(Movie.rating.desc()) ... scalars().all()
OrderByRatingDesc(db) == SortIds(db, DOMAIN db)

\* RankLoop assigning the rank to rating instead of ranking.
RECURSIVE RankLoopTypo(_, _, _, _)
RankLoopTypo(db, all_movies, rank, failAt) ==
    IF rank > Len(all_movies) THEN [db |-> db, status |-> 200]
    ELSE IF rank = failAt THEN [db |-> db, status |-> 500]
    ELSE RankLoopTypo([db EXCEPT ![all_movies[rank]].rating = <<rank>>],
                      all_movies, rank + 1, failAt)

\* RankLoop catching the failure of a commit and going on with the next row.
RECURSIVE RankLoopBestEffort(_, _, _, _)
RankLoopBestEffort(db, all_movies, rank, failAt) ==
    IF rank > Len(all_movies) THEN [db |-> db, status |-> 200]
    ELSE IF rank = failAt THEN RankLoopBestEffort(db, all_movies, rank + 1, failAt)
    ELSE RankLoopBestEffort([db EXCEPT ![all_movies[rank]].ranking = <<rank>>],
                            all_movies, rank + 1, failAt)

\* The loop of home from the given rank on.  failAt is the rank whose commit
\* raises (0: none does): that row's change is rolled back and the exception
\* leaves the handler.
RECURSIVE RankLoop(_, _, _, _)
RankLoop(db, all_movies, rank, failAt) ==
    IF rank > Len(all_movies) THEN [db |-> db, status |-> 200]
    ELSE IF rank = failAt THEN [db |-> db, status |-> 500]
    ELSE RankLoop([db EXCEPT ![all_movies[rank]].ranking = <<rank>>],
                  all_movies, rank + 1, failAt)

\* The methods a route accepts: @app.route without methods accepts GET only,
\* and the framework answers any other method itself, without calling the view.
RouteMethods(op) == IF op = "rate_movie" THEN {"GET", "POST"} ELSE {"GET"}

\* A request as it arrives, with the answer 200 until the view decides.
\* failed: the rank whose commit raised; movie: the row a page shows;
\* order: the rows of the list page; location: the id a redirect names.
Request(op, method, id, form) ==
    [ op |-> op, method |-> method, id |-> id,
      rating |-> form.rating, review |-> form.review,
      status |-> 200, error |-> "", failed |-> 0,
      movie |-> <<>>, order |-> <<>>, location |-> 0 ]

-----------------------------------------------------------------------------
Init ==
    /\ movies = << >>
    /\ last = Request("start", "GET", 0, NoForm)

\* GET /
Home(failAt) ==
    LET all_movies == OrderByRatingDesc(movies)
        done == RankLoop(movies, all_movies, 1, failAt)
        req == Request("home", "GET", 0, NoForm)
    IN  /\ movies' = done.db
        /\ last' = IF done.status = 200
                   THEN [req EXCEPT !.order = all_movies]
                   ELSE [req EXCEPT !.status = 500, !.error = "OperationalError",
                                    !.failed = failAt]

\* RateMovie with db.session.get in place of db.get_or_404: no row is None.
RateMovieNoAbort(movie_id, method, form) ==
    LET req == Request("rate_movie", method, movie_id, form)
    IN  IF movie_id \notin Ids
        THEN /\ movies' = movies
             /\ last' = IF method = "POST"
                        THEN [req EXCEPT !.status = 500, !.error = "AttributeError"]
                        ELSE req
        ELSE IF method = "POST" /\ ParseFloat(form.rating) # NULL
        THEN /\ movies' = SetRating(movies, movie_id, ParseFloat(form.rating), form.review)
             /\ last' = [req EXCEPT !.status = 302]
        ELSE /\ movies' = movies
             /\ last' = IF method = "POST"
                        THEN [req EXCEPT !.status = 500, !.error = "ValueError"]
                        ELSE [req EXCEPT !.movie = <<movies[movie_id]>>]

\* GET or POST /edit?id=movie_id
RateMovie(movie_id, method, form) ==
    LET req == Request("rate_movie", method, movie_id, form)
    IN  IF movie_id \notin Ids
        THEN /\ movies' = movies
             /\ last' = [req EXCEPT !.status = 404, !.error = "NotFound"]
        ELSE IF method = "POST"
        THEN IF ParseFloat(form.rating) = NULL
             THEN /\ movies' = movies
                  /\ last' = [req EXCEPT !.status = 500, !.error = "ValueError"]
             ELSE /\ movies' = SetRating(movies, movie_id, ParseFloat(form.rating),
                                         form.review)
                  /\ last' = [req EXCEPT !.status = 302]
        ELSE /\ movies' = movies
             /\ last' = [req EXCEPT !.movie = <<movies[movie_id]>>]

\* A request to /delete?id=movie_id
DeleteMovie(movie_id, method) ==
    LET req == Request("delete_movie", method, movie_id, NoForm)
    IN  IF method \notin RouteMethods("delete_movie")
        THEN /\ movies' = movies
             /\ last' = [req EXCEPT !.status = 405, !.error = "MethodNotAllowed"]
        ELSE IF movie_id \notin Ids
        THEN /\ movies' = movies
             /\ last' = [req EXCEPT !.status = 404, !.error = "NotFound"]
        ELSE IF method = "POST"
        THEN /\ movies' = Delete(movies, movie_id)
             /\ last' = [req EXCEPT !.status = 302]
        ELSE /\ movies' = movies
             /\ last' = [req EXCEPT !.movie = <<movies[movie_id]>>]

\* GET /find?id=movie_api_id
FindMovie(movie_api_id) ==
    LET req == Request("find_movie", "GET", movie_api_id, NoForm)
    IN  IF movie_api_id \notin DOMAIN Catalog
        THEN /\ movies' = movies
             /\ last' = [req EXCEPT !.status = 500, !.error = "KeyError"]
        ELSE LET new_movie == NewMovie(Catalog[movie_api_id])
             IN  IF UniqueViolation(movies, new_movie.title)
                 THEN /\ movies' = movies
                      /\ last' = [req EXCEPT !.status = 500, !.error = "IntegrityError"]
                 ELSE /\ movies' = Insert(movies, NextId, new_movie)
                      /\ last' = [req EXCEPT !.status = 302, !.location = NextId]

Next ==
    \/ \E failAt \in 0..Cardinality(Ids) : Home(failAt)
    \/ \E movie_id \in RequestIds : RateMovie(movie_id, "GET", NoForm)
    \/ \E movie_id \in RequestIds, form \in Forms : RateMovie(movie_id, "POST", form)
    \/ \E movie_id \in RequestIds, method \in {"GET", "POST"} : DeleteMovie(movie_id, method)
    \/ \E movie_api_id \in ProviderIds : FindMovie(movie_api_id)

Spec == Init /\ [][Next]_vars

-----------------------------------------------------------------------------
(* Properties.                                                             *)

Rated(db, i) == db[i].rating # NULL

\* j is to be listed before i: a larger rating, or a rating against none, or
\* the same rating and the smaller id.
Outranks(db, j, i) ==
    \/ Rated(db, j) /\ ~Rated(db, i)
    \/ Rated(db, j) /\ Rated(db, i) /\ db[j].rating[1] > db[i].rating[1]
    \/ db[j].rating = db[i].rating /\ j < i

\* The rank a complete pass is to give row i of db.
Place(db, i) == 1 + Cardinality({ j \in DOMAIN db : Outranks(db, j, i) })

HomeDone == last.op = "home" /\ last.status = 200

\* C1: after a pass of home that completes, the stored rankings are exactly
\* 1..N, a larger rating has the smaller rank, equal ratings have consecutive
\* distinct ranks (nothing of another rating lies between them), and every
\* row without a rating is ranked after every rated row.
C1_RanksDenseAndOrdered ==
    HomeDone =>
        /\ \A i \in Ids : movies[i].ranking # NULL
        /\ { movies[i].ranking[1] : i \in Ids } = 1..Cardinality(Ids)
        /\ \A a, b \in Ids :
              /\ (Rated(movies, a) /\ Rated(movies, b)
                    /\ movies[a].rating[1] > movies[b].rating[1])
                 => movies[a].ranking[1] < movies[b].ranking[1]
              /\ (Rated(movies, a) /\ ~Rated(movies, b))
                 => movies[a].ranking[1] < movies[b].ranking[1]
              /\ (a # b /\ movies[a].rating = movies[b].rating)
                 => /\ movies[a].ranking # movies[b].ranking
                    /\ \A c \in Ids :
                          (movies[a].ranking[1] < movies[c].ranking[1]
                             /\ movies[c].ranking[1] < movies[b].ranking[1])
                          => movies[c].rating = movies[a].rating

\* A completed pass over three rows: two with the same rating, one with none.
C1_Witness ==
    /\ HomeDone
    /\ Cardinality(Ids) = 3
    /\ \E a, b, c \in Ids :
          /\ a # b
          /\ Rated(movies, a) /\ movies[a].rating = movies[b].rating
          /\ ~Rated(movies, c)

\* C2: a confirmed delete (the POST of the delete flow) of a stored id
\* removes the row.
C2_DeleteRemoves ==
    (last.op = "delete_movie" /\ last.method = "POST") => last.id \notin Ids

\* C3: no two rows share a title, and a find_movie whose title a row already
\* has is answered with the uniqueness error and leaves the table as it was.
C3_DuplicateTitleRefused ==
    /\ [](\A a, b \in Ids : movies[a].title = movies[b].title => a = b)
    /\ [][ \A p \in DOMAIN Catalog :
             (last'.op = "find_movie" /\ last'.id = p
                /\ \E i \in Ids : movies[i].title = Catalog[p].title)
             => /\ last'.status = 500
                /\ last'.error = "IntegrityError"
                /\ movies' = movies ]_vars

\* "Dune" and "dune" are both stored and a second "Dune" has been refused.
C3_Witness ==
    /\ last.op = "find_movie" /\ last.id = 1 /\ last.error = "IntegrityError"
    /\ \E a, b \in Ids : movies[a].title = "Dune" /\ movies[b].title = "dune"

C5_RateOverwritesRatingAndReview ==
    /\ [][ (last'.op = "rate_movie" /\ last'.status = 302)
           => /\ last'.id \in Ids /\ DOMAIN movies' = Ids
              /\ last'.rating = <<"7",".","5">> => movies'[last'.id].rating = <<75>>
              /\ last'.rating = <<"1","2",".","5">> => movies'[last'.id].rating = <<125>>
              /\ movies'[last'.id].rating # NULL
              /\ movies'[last'.id].review = <<last'.review>>
              /\ \A f \in {"title", "year", "description", "img_url", "ranking"} :
                    movies'[last'.id][f] = movies[last'.id][f]
              /\ \A j \in Ids \ {last'.id} : movies'[j] = movies[j] ]_vars
    /\ [][ (last.op = "rate_movie" /\ last.status = 302
              /\ last'.op = "rate_movie" /\ last'.method = "GET" /\ last'.id = last.id)
           => /\ last'.status = 200
              /\ last.rating = <<"7",".","5">> => last'.movie[1].rating = <<75>>
              /\ last.rating = <<"1","2",".","5">> => last'.movie[1].rating = <<125>>
              /\ last'.movie[1].rating # NULL
              /\ last'.movie[1].review = <<last.review>> ]_vars

\* A ranked row has been rated 12.5 while another row is stored.
C5_Witness ==
    /\ last.op = "rate_movie" /\ last.status = 302
    /\ last.rating = <<"1","2",".","5">>
    /\ movies[last.id].ranking # NULL
    /\ Cardinality(Ids) > 1

\* C6: a pass of home run on the table a completed pass has left gives every
\* row the rank it has.
C6_RankingIdempotent ==
    HomeDone => RankLoop(movies, OrderByRatingDesc(movies), 1, 0).db = movies

\* A completed pass over a rated row and two rows without a rating.
C6_Witness ==
    /\ HomeDone
    /\ \E c \in Ids : Rated(movies, c)
    /\ \E a, b \in Ids : /\ a # b /\ ~Rated(movies, a) /\ ~Rated(movies, b)
                         /\ movies[a].ranking[1] < movies[b].ranking[1]

\* C7: every row has both a rating and a review or neither, and the row
\* find_movie has just inserted has neither.
C7_RatedOrUnrated ==
    /\ \A i \in Ids : (movies[i].rating = NULL) <=> (movies[i].review = NULL)
    /\ (last.op = "find_movie" /\ last.status = 302)
       => /\ movies[last.location].rating = NULL
          /\ movies[last.location].review = NULL

\* A rated row and an unrated row side by side after a rating.
C7_Witness ==
    /\ last.op = "rate_movie" /\ last.status = 302
    /\ \E a, b \in Ids : Rated(movies, a) /\ movies[a].review # NULL
                         /\ ~Rated(movies, b) /\ movies[b].review = NULL

\* The prefix of date that ends before its first "-" (all of it without one).
YearPart(date, part) ==
    \E k \in 0..Len(date) :
        /\ part = SubSeq(date, 1, k)
        /\ \A j \in 1..k : date[j] # "-"
        /\ k = Len(date) \/ date[k + 1] = "-"

FindDone == last.op = "find_movie" /\ last.status = 302

\* C8 as stated: the row has the provider's title and overview, the year before
\* the first "-", and the image base followed by poster_path; for release_date
\* "2021-10-22" and poster_path "/abc.jpg" the year is 2021 and, with the image
\* base "https://img/", the img_url is "https://img/abc.jpg".
C8_AsStated ==
    FindDone =>
        LET data == Catalog[last.id]
            row == movies[last.location]
        IN  /\ row.title = data.title /\ row.description = data.overview
            /\ row.img_url = MOVIE_DB_IMAGE_URL \o data.poster_path
            /\ (data.release_date = <<"2","0","2","1","-","1","0","-","2","2">>
                  /\ data.poster_path = "/abc.jpg")
               => /\ row.year = 2021
                  /\ ImageUrl("https://img/", data.poster_path) = "https://img/abc.jpg"

\* C8: the row find_movie inserts has the provider's title and overview, as
\* year the number written before the first "-" of release_date, and as
\* img_url the image base followed by poster_path with nothing put between or
\* taken away: for "2021-10-22" and "/abc.jpg" the year is 2021 and the
\* img_url "https://image.tmdb.org/t/p/w500/abc.jpg"; the base "https://img/"
\* gives "https://img//abc.jpg".
C8_FetchDetailFields ==
    FindDone =>
        LET data == Catalog[last.id]
            row == movies[last.location]
        IN  /\ row.title = data.title /\ row.description = data.overview
            /\ \E k \in 0..Len(data.release_date) :
                  /\ YearPart(data.release_date, SubSeq(data.release_date, 1, k))
                  /\ row.year = StrToInt(SubSeq(data.release_date, 1, k))
            /\ row.img_url = MOVIE_DB_IMAGE_URL \o data.poster_path
            /\ (data.release_date = <<"2","0","2","1","-","1","0","-","2","2">>
                  /\ data.poster_path = "/abc.jpg")
               => /\ row.year = 2021
                  /\ row.img_url = "https://image.tmdb.org/t/p/w500/abc.jpg"
                  /\ ImageUrl("https://img/", data.poster_path) = "https://img//abc.jpg"
            /\ data.release_date = <<"1","9","7","9">> => row.year = 1979

\* The film of release_date "2021-10-22" and poster_path "/abc.jpg" has just
\* been inserted.
C8_Witness ==
    /\ FindDone
    /\ Catalog[last.id].poster_path = "/abc.jpg"
    /\ movies[last.location].year = 2021

\* C9: while a row is stored its title, year, description and img_url stay as
\* they are and its rating and review change only in a rate_movie of its id;
\* home leaves the set of rows and every field but ranking as they are.
C9_OnlyRateAndRankWrite ==
    /\ [][ \A i \in Ids \cap DOMAIN movies' :
             /\ \A f \in {"title", "year", "description", "img_url"} :
                   movies'[i][f] = movies[i][f]
             /\ (movies'[i].rating # movies[i].rating \/ movies'[i].review # movies[i].review)
                => (last'.op = "rate_movie" /\ last'.id = i) ]_vars
    /\ [][ last'.op = "home"
           => /\ DOMAIN movies' = Ids
              /\ \A i \in Ids :
                    [movies'[i] EXCEPT !.ranking = movies[i].ranking] = movies[i] ]_vars

\* A completed pass over three rated rows.
C9_Witness ==
    /\ HomeDone
    /\ Cardinality(Ids) = 3
    /\ \A i \in Ids : Rated(movies, i) /\ movies[i].ranking # NULL

\* C10 as stated: a commit that fails in home does not abort the read: the
\* rows after it are still given their ranks and the list is still returned.
C10_AsStated ==
    (last.op = "home" /\ last.failed > 0)
    => /\ last.status = 200
       /\ Len(last.order) = Cardinality(Ids)
       /\ \A i \in Ids : Place(movies, i) > last.failed
             => movies[i].ranking = <<Place(movies, i)>>

\* C10: a commit that fails in home aborts the read: the answer is an error
\* without the list, the rows before the failing one have their new ranks and
\* the others the ranks they had; a pass that completes, whatever ranks it
\* finds, leaves every row its rank.
C10_FailedPassAbortsLaterPassCorrects ==
    /\ [][ (last'.op = "home" /\ last'.status # 200)
           => /\ last'.status = 500 /\ last'.order = <<>> /\ last'.failed > 0
              /\ DOMAIN movies' = Ids
              /\ \A i \in Ids :
                    movies'[i] = IF Place(movies, i) < last'.failed
                                 THEN [movies[i] EXCEPT !.ranking = <<Place(movies, i)>>]
                                 ELSE movies[i] ]_vars
    /\ [][ (last'.op = "home" /\ last'.status = 200)
           => /\ Len(last'.order) = Cardinality(Ids)
              /\ \A i \in DOMAIN movies' :
                    /\ movies'[i].ranking = <<Place(movies', i)>>
                    /\ last'.order[Place(movies', i)] = i ]_vars

\* The second commit of a pass over three rows has failed and a row is left
\* with a rank that is not its place.
C10_Witness ==
    /\ last.op = "home" /\ last.status = 500 /\ last.failed = 2
    /\ Cardinality(Ids) = 3
    /\ \E i \in Ids : movies[i].ranking # <<Place(movies, i)>>

=============================================================================
